---- MODULE Spec2Model ----
(***************************************************************************)
(* A model of pydian's validation core: Rule, RuleGroup, the combination   *)
(* algebra, the schema builder and validate                                *)
(* (src/pydian/validation/rules.py, specific.py, validate.py), together    *)
(* with the part of dicts.get they call (src/pydian/dicts/core.py,         *)
(* util.py).                                                               *)
(*                                                                         *)
(* Python objects live in `heap`: a Rule or RuleGroup is a heap cell named *)
(* by its index, so that sharing and in-place assignment to an attribute   *)
(* are visible.  `last` records the most recent operation and its result.  *)
(***************************************************************************)
EXTENDS Integers, Sequences, FiniteSets, TLC

VARIABLES heap, last, threads

vars == <<heap, last, threads>>

(***************************************************************************)
(* Python data.  Every value is a record of one shape: t is the Python     *)
(* type, s the text of a scalar, items the members of a dict (records      *)
(* [k, val], in insertion order) or of a list.                             *)
(***************************************************************************)
None == [t |-> "none", s |-> "None", items |-> <<>>]

StrV(s) == [t |-> "str", s |-> s, items |-> <<>>]

IntV(s) == [t |-> "int", s |-> s, items |-> <<>>]

FloatV(s) == [t |-> "float", s |-> s, items |-> <<>>]

BoolV(s) == [t |-> "bool", s |-> s, items |-> <<>>]

DictV(pairs) == [t |-> "dict", s |-> "", items |-> pairs]

ListV(elems) == [t |-> "list", s |-> "", items |-> elems]

KV(k, val) == [k |-> k, val |-> val]

\* bool(value): None, "", 0, 0.0, False, {} and [] are falsy.
Truthy(v) ==
    CASE v.t = "none" -> FALSE
      [] v.t = "str" -> v.s # ""
      [] v.t = "int" -> v.s # "0"
      [] v.t = "float" -> v.s # "0.0"
      [] v.t = "bool" -> v.s = "True"
      [] OTHER -> v.items # <<>>

\* isinstance(v, ty) for the builtin types; bool is a subclass of int.
IsInstance(v, ty) == v.t = ty \/ (ty = "int" /\ v.t = "bool")

\* Whether len(v) is defined (str, dict, list); otherwise len raises TypeError.
HasLen(v) == v.t \in {"str", "dict", "list"}

\* len(v), for v with HasLen(v).  The strings of the model are "" or one word
\* of three letters.
PyLen(v) == IF v.t = "str" THEN (IF v.s = "" THEN 0 ELSE 3) ELSE Len(v.items)

\* The number a numeric value stands for, as text: True == 1 and False == 0.
NumText(v) == IF v.t = "bool" THEN (IF v.s = "True" THEN "1" ELSE "0") ELSE v.s

\* v == w in Python: numbers compare by value across int/bool, everything else
\* by type and content.
PyEq(v, w) ==
    IF v.t \in {"int", "bool"} /\ w.t \in {"int", "bool"}
    THEN NumText(v) = NumText(w)
    ELSE v = w

(***************************************************************************)
(* dicts.get, non-strict.  A key path is the sequence of its name tokens.  *)
(* The result is [tag, v]: tag "val" with the value, or "raise" when an    *)
(* exception other than KeyError/IndexError leaves get.                    *)
(***************************************************************************)
NoKey == <<>>

GetVal(v) == [tag |-> "val", v |-> v]

GetRaise == [tag |-> "raise", v |-> None]

HasKey(d, k) == \E i \in 1..Len(d.items) : d.items[i].k = k

Lookup(d, k) == d.items[CHOOSE i \in 1..Len(d.items) : d.items[i].k = k].val

\* default_dsl: index res by each token in turn.  A missing dict key is a
\* KeyError (caught: the default, None); a name token applied to a str, list
\* or number is a TypeError (not caught); a None reached on the way ends the
\* walk.
RECURSIVE default_dsl(_, _)
default_dsl(res, toks) ==
    IF toks = <<>> THEN GetVal(res)
    ELSE IF res.t = "dict"
         THEN IF HasKey(res, Head(toks))
              THEN LET nx == Lookup(res, Head(toks))
                   IN  IF nx = None THEN GetVal(None) ELSE default_dsl(nx, Tail(toks))
              ELSE GetVal(None)
         ELSE GetRaise

\* get that hands back the source itself.
get_whole(source, key) == GetVal(source)

\* get(source, key): a falsy source gives the default without a lookup.
get(source, key) == IF Truthy(source) THEN default_dsl(source, key) ELSE GetVal(None)

(***************************************************************************)
(* Predicates (the _fn of a Rule): p names the function, ty and val are    *)
(* its closure.  PredEval is "T" (truthy), "F" (falsy) or "X" (raises).    *)
(***************************************************************************)
Fn(p, ty, val, lo, hi) == [p |-> p, ty |-> ty, val |-> val, lo |-> lo, hi |-> hi]

NoFn == Fn("none", "", None, 0, 0)

\* p.isinstance_of(ty)
isinstance_of(ty) == Fn("isinstance_of", ty, None, 0, 0)

\* p.equals(val)
equals(val) == Fn("equals", "", val, 0, 0)

\* p.not_equivalent(None)
not_equivalent_None == Fn("not_equivalent", "", None, 0, 0)

\* p.equivalent(None)
equivalent_None == Fn("equivalent", "", None, 0, 0)

\* InRange(lo, hi): lambda l: lo <= len(l) <= hi
in_range(lo, hi) == Fn("in_range", "", None, lo, hi)

\* lambda x: len(x) > 0 (the tests' is_nonempty)
is_nonempty == Fn("is_nonempty", "", None, 0, 0)

PredEval(fn, v) ==
    CASE fn.p = "isinstance_of" -> IF IsInstance(v, fn.ty) THEN "T" ELSE "F"
      [] fn.p = "equals" -> IF PyEq(v, fn.val) THEN "T" ELSE "F"
      [] fn.p = "not_equivalent" -> IF v # None THEN "T" ELSE "F"
      [] fn.p = "equivalent" -> IF v = None THEN "T" ELSE "F"
      [] fn.p = "in_range" ->
            IF ~HasLen(v) THEN "X"
            ELSE IF fn.lo <= PyLen(v) /\ PyLen(v) <= fn.hi THEN "T" ELSE "F"
      [] fn.p = "is_nonempty" ->
            IF ~HasLen(v) THEN "X" ELSE IF PyLen(v) > 0 THEN "T" ELSE "F"
      [] OTHER -> "X"

(***************************************************************************)
(* Heap cells.  kind is "Rule" or "RuleGroup"; cls the Python class;       *)
(* constraint is the RC of a Rule ("NONE" for no constraint, "REQUIRED")   *)
(* or the RGC of a RuleGroup; key is _key (NoKey for None); iter is        *)
(* _iter_over_input (FALSE for None); items the members of a RuleGroup;    *)
(* n_rules its _n_rules; parent_key the _parent_key attribute that         *)
(* validate adds (NoKey while the attribute does not exist).               *)
(***************************************************************************)
RGC == {"ALL_REQUIRED_RULES", "ALL", "ALL_WHEN_DATA_PRESENT",
        "AT_LEAST_ONE", "AT_LEAST_TWO", "AT_LEAST_THREE"}

RC == {"NONE", "REQUIRED"}

\* The values of AT_LEAST_* one too high.
AtLeastValue_OffByOne(c) ==
    CASE c = "AT_LEAST_ONE" -> 2
      [] c = "AT_LEAST_TWO" -> 3
      [] c = "AT_LEAST_THREE" -> 4
      [] OTHER -> 0

\* RGC.AT_LEAST_*.value
AtLeastValue(c) ==
    CASE c = "AT_LEAST_ONE" -> 1
      [] c = "AT_LEAST_TWO" -> 2
      [] c = "AT_LEAST_THREE" -> 3
      [] OTHER -> 0

\* Rule.__init__(fn, constraint, at_key)
Rule(cls, fn, constraint, at_key) ==
    [kind |-> "Rule", cls |-> cls, fn |-> fn, constraint |-> constraint,
     key |-> at_key, iter |-> FALSE, items |-> <<>>, n_rules |-> 0,
     parent_key |-> NoKey]

IsRule(h, id) == h[id].kind = "Rule"

IsGroup(h, id) == h[id].kind = "RuleGroup"

RECURSIVE SumNRules(_, _)
SumNRules(h, items) ==
    IF items = <<>> THEN 0
    ELSE (IF IsGroup(h, Head(items)) THEN h[Head(items)].n_rules ELSE 1)
         + SumNRules(h, Tail(items))

\* RuleGroup.__init__(items, constraint, at_key) for items that are Rules and
\* RuleGroups already: _n_rules adds 1 per Rule and a group's own _n_rules.
RuleGroup(h, items, constraint, at_key) ==
    [kind |-> "RuleGroup", cls |-> "RuleGroup", fn |-> NoFn,
     constraint |-> constraint, key |-> at_key, iter |-> FALSE,
     items |-> items, n_rules |-> SumNRules(h, items), parent_key |-> NoKey]

(***************************************************************************)
(* Evidence.  The passed/failed RuleGroup a call returns is a fresh list   *)
(* whose members are the Rule objects themselves (Ref) and, for a nested   *)
(* group, the fresh list that group returned (Ev).                         *)
(***************************************************************************)
Ref(id) == [k |-> "ref", id |-> id, items |-> <<>>]

\* Evidence that keeps the Rules and loses the nested groups.
Ev_RulesOnly(items) ==
    [k |-> "ev", id |-> 0, items |-> SelectSeq(items, LAMBDA e : e.k = "ref")]

Ev(items) == [k |-> "ev", id |-> 0, items |-> items]

\* The result of a call: tag "Ok", "Err" or "Raise" (an exception leaves the
\* call); exc: the Err carries an exception; ev: the evidence; h: the heap
\* after the call.
Outcome(tag, exc, ev, h) == [tag |-> tag, exc |-> exc, ev |-> ev, h |-> h]

(***************************************************************************)
(* Rule.__call__                                                           *)
(***************************************************************************)
\* The loop of a Rule with _iter_over_input: TRUE iff the predicate is truthy
\* on every element.  A falsy element raises RuntimeError and a raising
\* predicate raises its own exception; both are caught by the caller.
RECURSIVE AllTruthy(_, _)
AllTruthy(fn, elems) ==
    IF elems = <<>> THEN TRUE
    ELSE PredEval(fn, Head(elems)) = "T" /\ AllTruthy(fn, Tail(elems))

\* Rule.__call__ without its try/except: an exception of the predicate leaves
\* the call.
Rule_call_uncaught(h, id, source) ==
    LET r == h[id]
        g == IF source.t = "dict" /\ r.key # NoKey
             THEN get(source, r.key) ELSE GetVal(source)
    IN  IF g.tag = "raise" THEN Outcome("Raise", TRUE, Ref(id), h)
        ELSE CASE PredEval(r.fn, g.v) = "T" -> Outcome("Ok", FALSE, Ref(id), h)
               [] PredEval(r.fn, g.v) = "F" -> Outcome("Err", FALSE, Ref(id), h)
               [] OTHER -> Outcome("Raise", TRUE, Ref(id), h)

\* Rule.__call__(source): the key applies to a dict source only.  (The
\* unwrapping of an Ok passed as source is left out: the data of the model
\* holds no Ok.)  A get that raises is outside the try block.
Rule_call(h, id, source) ==
    LET r == h[id]
        g == IF source.t = "dict" /\ r.key # NoKey
             THEN get(source, r.key) ELSE GetVal(source)
        curr_source == g.v
        ok == Outcome("Ok", FALSE, Ref(id), h)
        err == Outcome("Err", FALSE, Ref(id), h)
        errExc == Outcome("Err", TRUE, Ref(id), h)
    IN  IF g.tag = "raise" THEN Outcome("Raise", TRUE, Ref(id), h)
        ELSE IF r.iter
             THEN IF curr_source.t # "list" THEN errExc
                  ELSE IF ~AllTruthy(r.fn, curr_source.items) THEN errExc
                  ELSE IF curr_source.items = <<>> THEN err
                  ELSE ok
             ELSE CASE PredEval(r.fn, curr_source) = "T" -> ok
                    [] PredEval(r.fn, curr_source) = "F" -> err
                    [] OTHER -> errExc

(***************************************************************************)
(* RuleGroup.__call__ and its helpers                                      *)
(***************************************************************************)
\* _contains_required_rule looking at the direct members only.
contains_required_rule_direct(h, item) ==
    \E i \in 1..Len(item.items) :
        /\ item.items[i].k = "ref"
        /\ h[item.items[i].id].kind = "Rule"
        /\ h[item.items[i].id].constraint = "REQUIRED"

\* _contains_required_rule(rg): some Rule in rg, at any depth, is REQUIRED.
RECURSIVE contains_required_rule(_, _)
contains_required_rule(h, item) ==
    IF item.k = "ref"
    THEN IF IsRule(h, item.id)
         THEN h[item.id].constraint = "REQUIRED"
         ELSE \E i \in 1..Len(h[item.id].items) :
                 contains_required_rule(h, Ref(h[item.id].items[i]))
    ELSE \E i \in 1..Len(item.items) : contains_required_rule(h, item.items[i])

\* The members of an evidence item: of a fresh list, or of a heap group.
Members(h, item) ==
    IF item.k = "ev" THEN item.items
    ELSE [i \in 1..Len(h[item.id].items) |-> Ref(h[item.id].items[i])]

\* _rulegroup_applies(rg, source): "T", "F", or "X" when get raises.  A Rule
\* applies when it has no key or get(source, key) is not None; any() over a
\* group stops at the first member that applies.
RECURSIVE rulegroup_applies(_, _, _), AnyApplies(_, _, _)
rulegroup_applies(h, item, source) ==
    IF item.k = "ref" /\ IsRule(h, item.id)
    THEN IF h[item.id].key = NoKey THEN "T"
         ELSE LET g == get(source, h[item.id].key)
              IN  IF g.tag = "raise" THEN "X"
                  ELSE IF g.v # None THEN "T" ELSE "F"
    ELSE AnyApplies(h, Members(h, item), source)

AnyApplies(h, items, source) ==
    IF items = <<>> THEN "F"
    ELSE LET a == rulegroup_applies(h, Head(items), source)
         IN  IF a = "F" THEN AnyApplies(h, Tail(items), source) ELSE a

\* bool(it_res) of a Result: Ok and Err define neither __bool__ nor __len__,
\* so every Result is truthy and `is_all_truthy` never becomes False.
ResultTruthy(tag) == TRUE

RECURSIVE Call(_, _, _), IterCalls(_, _, _, _), RunItems(_, _, _, _, _)

\* for it in curr_source: it_res = curr_item(it); a falsy it_res raises
\* RuntimeError, which leaves the call.
IterCalls(h, c, elems, j) ==
    IF j > Len(elems) THEN [h |-> h, raised |-> FALSE]
    ELSE LET o == Call(h, c, elems[j])
         IN  IF o.tag = "Raise" \/ ~ResultTruthy(o.tag)
             THEN [h |-> o.h, raised |-> TRUE]
             ELSE IterCalls(o.h, c, elems, j + 1)

\* The loop `for curr_item in self` from member i on.  acc holds rg_passed,
\* rg_failed and whether an exception left the loop.
RunItems(h, gid, curr_source, i, acc) ==
    IF i > Len(h[gid].items) THEN [acc EXCEPT !.h = h]
    ELSE LET c == h[gid].items[i]
             iterating == h[gid].iter /\ curr_source.t = "list"
             h1 == IF iterating THEN [h EXCEPT ![c].iter = TRUE] ELSE h
         IN  IF iterating
             THEN LET it == IterCalls(h1, c, curr_source.items, 1)
                  IN  IF it.raised
                      THEN [acc EXCEPT !.h = it.h, !.raised = TRUE]
                      ELSE RunItems(it.h, gid, curr_source, i + 1,
                                    [acc EXCEPT !.passed = Append(@, Ref(c))])
             ELSE LET o == Call(h1, c, curr_source)
                      e == IF IsRule(h1, c) THEN Ref(c) ELSE o.ev
                  IN  CASE o.tag = "Raise" ->
                             [acc EXCEPT !.h = o.h, !.raised = TRUE]
                        [] o.tag = "Ok" ->
                             RunItems(o.h, gid, curr_source, i + 1,
                                      [acc EXCEPT !.passed = Append(@, e)])
                        [] OTHER ->
                             RunItems(o.h, gid, curr_source, i + 1,
                                      [acc EXCEPT !.failed = Append(@, e)])

\* RGC.ALL satisfied as soon as one member passed.
AllPassed_Any(h, gid, passed) == Len(passed) >= 1

\* RGC.ALL: len(rg_passed) == len(self)
AllPassed(h, gid, passed) == Len(passed) = Len(h[gid].items)

\* RGC.ALL_REQUIRED_RULES failing on any failed member.
RequiredRulesPassed_Strict(failed) == failed = <<>>

\* RGC.ALL_REQUIRED_RULES: the required Rules were checked before, so the
\* group has passed.
RequiredRulesPassed(failed) == TRUE

\* The outcome a constraint gives for rg_passed and rg_failed, once no
\* required Rule is among the failed.
ApplyConstraint(h, gid, curr_source, passed, failed) ==
    LET c == h[gid].constraint
        ok == Outcome("Ok", FALSE, Ev(passed), h)
        err == Outcome("Err", FALSE, Ev(failed), h)
    IN  CASE c = "ALL" ->
               IF AllPassed(h, gid, passed) THEN ok ELSE err
          [] c \in {"AT_LEAST_ONE", "AT_LEAST_TWO", "AT_LEAST_THREE"} ->
               IF Len(passed) >= AtLeastValue(c) THEN ok ELSE err
          [] c = "ALL_REQUIRED_RULES" ->
               IF RequiredRulesPassed(failed) THEN ok ELSE err
          [] c = "ALL_WHEN_DATA_PRESENT" ->
               LET a == rulegroup_applies(h, Ev(failed), curr_source)
               IN  CASE a = "X" -> Outcome("Raise", TRUE, Ev(<<>>), h)
                     [] a = "F" -> ok
                     [] OTHER -> err
          [] OTHER -> Outcome("Raise", TRUE, Ev(<<>>), h)

\* RuleGroup.__call__(source)
RuleGroup_call(h, gid, source) ==
    LET g == IF source.t = "dict" /\ h[gid].key # NoKey
             THEN get(source, h[gid].key) ELSE GetVal(source)
        curr_source == g.v
        acc == RunItems(h, gid, curr_source, 1,
                        [passed |-> <<>>, failed |-> <<>>, h |-> h, raised |-> FALSE])
    IN  IF g.tag = "raise" THEN Outcome("Raise", TRUE, Ev(<<>>), h)
        ELSE IF acc.raised THEN Outcome("Raise", TRUE, Ev(<<>>), acc.h)
        ELSE IF contains_required_rule(acc.h, Ev(acc.failed))
             THEN Outcome("Err", FALSE, Ev(acc.failed), acc.h)
        ELSE ApplyConstraint(acc.h, gid, curr_source, acc.passed, acc.failed)

\* node(source) for a Rule or a RuleGroup
Call(h, id, source) ==
    IF IsRule(h, id) THEN Rule_call(h, id, source) ELSE RuleGroup_call(h, id, source)

(***************************************************************************)
(* Schema literals: what stands to the right of & and |, in a dict or list *)
(* literal, or in a validation map.  kind is "node" (a Rule or RuleGroup   *)
(* object, id), "type" (a class, ty), "fn" (another callable, fn), "val"   *)
(* (a value that is not callable, val), "dict" (items: records [key, lit], *)
(* key being the token sequence of the key string) or "list" (items:       *)
(* literals).                                                              *)
(***************************************************************************)
Lit(kind, id, ty, fn, val, items) ==
    [kind |-> kind, id |-> id, ty |-> ty, fn |-> fn, val |-> val, items |-> items]

LNode(id) == Lit("node", id, "", NoFn, None, <<>>)

LType(ty) == Lit("type", 0, ty, NoFn, None, <<>>)

LFn(fn) == Lit("fn", 0, "", fn, None, <<>>)

LVal(val) == Lit("val", 0, "", NoFn, val, <<>>)

LDict(pairs) == Lit("dict", 0, "", NoFn, None, pairs)

LList(elems) == Lit("list", 0, "", NoFn, None, elems)

KL(key, lit) == [key |-> key, lit |-> lit]

\* callable(v): classes, functions, Rules and RuleGroups are callable.
Callable(v) == v.kind \in {"node", "type", "fn"}

\* A new object on the heap: [h, id].
Alloc(h, cell) == [h |-> Append(h, cell), id |-> Len(h) + 1]

\* RuleGroup.append(item) for a Rule or RuleGroup item
append(h, gid, item) ==
    [h EXCEPT ![gid].items = Append(@, item),
              ![gid].n_rules = @ + (IF IsGroup(h, item) THEN h[item].n_rules ELSE 1)]

\* RuleGroup.extend(item) for a RuleGroup item: its members are spliced in
\* and its key, when it has one, replaces the key of self.
extend(h, gid, item) ==
    [h EXCEPT ![gid].items = @ \o h[item].items,
              ![gid].n_rules = @ + h[item].n_rules,
              ![gid].key = IF h[item].key # NoKey THEN h[item].key ELSE @]

\* IsType(typ, constraint, at_key)
IsType(ty, constraint, at_key) == Rule("IsType", isinstance_of(ty), constraint, at_key)

\* IsRequired(at_key)
IsRequired(at_key) == Rule("IsRequired", not_equivalent_None, "REQUIRED", at_key)

\* IsOptional(at_key)
IsOptional(at_key) == Rule("IsOptional", equivalent_None, "NONE", at_key)

\* init_specific dropping at_key.
SpecificRule_NoKey(v, constraint, at_key) ==
    IF v.kind = "type" THEN IsType(v.ty, constraint, NoKey)
    ELSE Rule("Rule", v.fn, constraint, NoKey)

\* A cell for a callable that is no Rule or RuleGroup: IsType for a class, a
\* plain Rule otherwise (the last two branches of Rule.init_specific).
SpecificRule(v, constraint, at_key) ==
    IF v.kind = "type" THEN IsType(v.ty, constraint, at_key)
    ELSE Rule("Rule", v.fn, constraint, at_key)

RECURSIVE dict_to_rulegroup(_, _, _), DictItems(_, _, _, _),
          list_to_rulegroup(_, _, _), ListItems(_, _, _, _)

\* The loop of _dict_to_rulegroup from pair i on; res is the group built.
DictItems(h, res, pairs, i) ==
    IF i > Len(pairs) THEN [h |-> h, id |-> res]
    ELSE LET k == pairs[i].key
             v == pairs[i].lit
         IN  CASE v.kind = "node" ->
                    DictItems(append([h EXCEPT ![v.id].key = k], res, v.id),
                              res, pairs, i + 1)
               [] v.kind = "dict" ->
                    LET t == Alloc(h, IsType("dict", "NONE", k))
                        d == dict_to_rulegroup(append(t.h, res, t.id), v.items, k)
                    IN  DictItems(append(d.h, res, d.id), res, pairs, i + 1)
               [] v.kind = "list" ->
                    LET t == Alloc(h, IsType("list", "NONE", k))
                        l == list_to_rulegroup(append(t.h, res, t.id), v.items, k)
                    IN  DictItems(append(l.h, res, l.id), res, pairs, i + 1)
               [] v.kind = "val" ->
                    LET r == Alloc(h, Rule("Rule", equals(v.val), "NONE", k))
                    IN  DictItems(append(r.h, res, r.id), res, pairs, i + 1)
               [] OTHER ->
                    LET r == Alloc(h, SpecificRule(v, "NONE", k))
                    IN  DictItems(append(r.h, res, r.id), res, pairs, i + 1)

\* _dict_to_rulegroup(d, key_prefix): [h, id] of the group
dict_to_rulegroup(h, pairs, key_prefix) ==
    LET res == Alloc(h, RuleGroup(h, <<>>, "ALL", key_prefix))
    IN  DictItems(res.h, res.id, pairs, 1)

\* The loop of _list_to_rulegroup from element i on; res is the group that
\* is returned in the end, which a RuleGroup element replaces.
ListItems(h, res, elems, i) ==
    IF i > Len(elems) THEN [h |-> h, id |-> res]
    ELSE LET it == elems[i]
         IN  CASE it.kind = "node" /\ IsRule(h, it.id) ->
                    ListItems(append([h EXCEPT ![it.id].iter = TRUE], res, it.id),
                              res, elems, i + 1)
               [] it.kind = "node" /\ IsGroup(h, it.id) ->
                    ListItems([h EXCEPT ![it.id].iter = TRUE], it.id, elems, i + 1)
               [] it.kind = "dict" ->
                    LET d == dict_to_rulegroup(h, it.items, NoKey)
                    IN  ListItems(extend(d.h, res, d.id), res, elems, i + 1)
               [] it.kind = "list" ->
                    LET l == list_to_rulegroup(h, it.items, NoKey)
                    IN  ListItems(extend(l.h, res, l.id), res, elems, i + 1)
               [] it.kind = "val" ->
                    LET r == Alloc(h, [Rule("Rule", equals(it.val), "NONE", NoKey)
                                          EXCEPT !.iter = TRUE])
                    IN  ListItems(append(r.h, res, r.id), res, elems, i + 1)
               [] OTHER ->
                    LET r == Alloc(h, [SpecificRule(it, "NONE", NoKey)
                                          EXCEPT !.iter = TRUE])
                    IN  ListItems(append(r.h, res, r.id), res, elems, i + 1)

\* _list_to_rulegroup(l, key_prefix): [h, id] of the group
list_to_rulegroup(h, elems, key_prefix) ==
    LET res == Alloc(h, [RuleGroup(h, <<>>, "ALL", key_prefix) EXCEPT !.iter = TRUE])
    IN  ListItems(res.h, res.id, elems, 1)

\* Rule.init_specific(v, constraint, at_key) for a callable, dict or list v
init_specific(h, v, constraint, at_key) ==
    CASE v.kind = "node" -> [h |-> h, id |-> v.id]
      [] v.kind = "list" -> list_to_rulegroup(h, v.items, NoKey)
      [] v.kind = "dict" -> dict_to_rulegroup(h, v.items, NoKey)
      [] OTHER -> Alloc(h, SpecificRule(v, constraint, at_key))

\* RuleGroup.combine(first, other, constraint): a new group of first and the
\* expansion of other.
combine(h, first, other, constraint) ==
    LET res == Alloc(h, RuleGroup(h, <<first>>, constraint, NoKey))
    IN  CASE other.kind = "node" ->
               [h |-> append(res.h, res.id, other.id), id |-> res.id]
          [] other.kind = "dict" ->
               LET t == Alloc(res.h, IsType("dict", "NONE", NoKey))
                   d == dict_to_rulegroup(append(t.h, res.id, t.id), other.items, NoKey)
               IN  [h |-> append(d.h, res.id, d.id), id |-> res.id]
          [] other.kind = "list" ->
               LET t == Alloc(res.h, IsType("list", "NONE", NoKey))
                   l == list_to_rulegroup(append(t.h, res.id, t.id), other.items, NoKey)
               IN  [h |-> append(l.h, res.id, l.id), id |-> res.id]
          [] other.kind = "val" ->
               LET r == Alloc(res.h, Rule("Rule", equals(other.val), "NONE", NoKey))
               IN  [h |-> append(r.h, res.id, r.id), id |-> res.id]
          [] OTHER ->
               LET r == Alloc(res.h, SpecificRule(other, "NONE", NoKey))
               IN  [h |-> append(r.h, res.id, r.id), id |-> res.id]

(***************************************************************************)
(* The operators & and |.  Python calls type(a).__and__(a, other) (the     *)
(* reflected method of other first when other's class is a proper subclass *)
(* of a's that overrides it, which gives the same result here).            *)
(***************************************************************************)
\* _check_rand(curr, other): other has a __rand__ that accepts curr.  Of the
\* values of the model only IsOptional (always) and IsRequired (for a Rule)
\* do: Rule and RuleGroup return NotImplemented, int.__rand__ of the class
\* raises, of an int value returns NotImplemented, str, dict and list have
\* none.
check_rand(h, curr, other) ==
    /\ other.kind = "node"
    /\ \/ h[other.id].cls = "IsOptional"
       \/ h[other.id].cls = "IsRequired" /\ IsRule(h, curr)

\* The constraint set on the operand itself, no copy made.
RequiredCopy_InPlace(h, id) ==
    [h |-> [h EXCEPT ![id].constraint = "REQUIRED"], id |-> id]

\* deepcopy(rule) with _constraint = RC.REQUIRED
RequiredCopy(h, id) == Alloc(h, [h[id] EXCEPT !.constraint = "REQUIRED"])

\* other.__rand__(curr), where _check_rand(curr, other)
rand(h, other, curr) ==
    IF h[other].cls = "IsRequired" THEN RequiredCopy(h, curr)
    ELSE Alloc(h, RuleGroup(h, <<curr, other>>, "AT_LEAST_ONE", NoKey))

\* Rule.__and__ and RuleGroup.__and__
Rule_and(h, a, other) ==
    IF check_rand(h, a, other) THEN rand(h, other.id, a)
    ELSE combine(h, a, other, "ALL")

\* IsRequired.__and__(other)
IsRequired_and(h, a, other) ==
    CASE other.kind = "node" /\ IsRule(h, other.id) -> RequiredCopy(h, other.id)
      [] other.kind \in {"type", "fn"} -> Alloc(h, SpecificRule(other, "REQUIRED", NoKey))
      [] OTHER -> Rule_and(h, a, other)

\* IsOptional.__and__ taking the generic path of Rule.__and__.
IsOptional_and_All(h, a, other) == combine(h, a, other, "ALL")

\* IsOptional.__and__(other)
IsOptional_and(h, a, other) ==
    CASE other.kind = "node" ->
           Alloc(h, RuleGroup(h, <<a, other.id>>, "AT_LEAST_ONE", NoKey))
      [] other.kind \in {"type", "fn"} ->
           LET r == Alloc(h, SpecificRule(other, "NONE", NoKey))
           IN  Alloc(r.h, RuleGroup(r.h, <<a, r.id>>, "AT_LEAST_ONE", NoKey))
      [] OTHER -> combine(h, a, other, "AT_LEAST_ONE")

\* a & other
And(h, a, other) ==
    CASE h[a].cls = "IsRequired" -> IsRequired_and(h, a, other)
      [] h[a].cls = "IsOptional" -> IsOptional_and(h, a, other)
      [] OTHER -> Rule_and(h, a, other)

\* other & b for a type or a bare callable other: b.__rand__(other), which
\* only IsRequired and IsOptional define other than as NotImplemented.
Rand(h, other, b) ==
    IF h[b].cls = "IsRequired"
    THEN Alloc(h, SpecificRule(other, "REQUIRED", NoKey))
    ELSE LET r == Alloc(h, SpecificRule(other, "NONE", NoKey))
         IN  Alloc(r.h, RuleGroup(r.h, <<r.id, b>>, "AT_LEAST_ONE", NoKey))

\* pydian/rules.py, the module that defines NotRequired.  Its Rule keeps a set
\* _constraints (constraint "REQUIRED" or "NONE" here) and its RuleGroup a
\* _set_constraint of ALL_OF, OPTIONAL, ONE_OF, TWO_OF or THREE_OF.
\* deepcopy(node) there, for a Rule or a RuleGroup of Rules: the class has no
\* __deepcopy__, so the copy receives the instance attributes and is then
\* filled through append(), which counts every member into _n_rules again.
deepcopy(h, id) ==
    IF IsRule(h, id) THEN Alloc(h, h[id])
    ELSE LET n == Len(h[id].items)
             h1 == h \o [i \in 1..n |-> h[h[id].items[i]]]
         IN  Alloc(h1, [h[id] EXCEPT !.items = [i \in 1..n |-> Len(h) + i],
                                     !.n_rules = @ + n])

\* NotRequired.__and__(other) for a Rule or RuleGroup other
NotRequired_and(h, other) ==
    LET res == deepcopy(h, other)
    IN  IF IsRule(h, other)
        THEN [h |-> [res.h EXCEPT ![res.id].constraint = "NONE"], id |-> res.id]
        ELSE [h |-> [res.h EXCEPT ![res.id].constraint = "OPTIONAL"], id |-> res.id]

\* | building an ALL group.
Or_All(h, a, other) == combine(h, a, other, "ALL")

\* a | other: Rule.__or__ and RuleGroup.__or__
Or(h, a, other) == combine(h, a, other, "AT_LEAST_ONE")

(***************************************************************************)
(* validate.  The Err of validate holds a list with one member per failing *)
(* key: Tup(id, ev), the err_value of the Rule or RuleGroup id called at   *)
(* the key, or EvList(entries), the list a nested dict literal returned.   *)
(***************************************************************************)
Tup(id, ev) == [k |-> "tup", id |-> id, items |-> ev]

EvList(entries) == [k |-> "list", id |-> 0, items |-> entries]

\* The err_value without the failed members of a group.
ErrValue_NoEvidence(h, id, o) == Tup(id, <<>>)

\* The err_value of node(curr_source): (rule, source, res) for a Rule,
\* (group, source, rg_failed) for a RuleGroup.
ErrValue(h, id, o) == Tup(id, IF IsRule(h, id) THEN <<>> ELSE <<o.ev>>)

\* f"{_parent_key}.{k}" if _parent_key else k
ParentKey(parent_key, k) == IF parent_key # NoKey THEN parent_key \o k ELSE k

\* _validate_recursive from pair i of the map on; failed is failed_r_rg.
RECURSIVE validate_recursive(_, _, _, _, _, _)
validate_recursive(h, source, pairs, parent_key, i, failed) ==
    IF i > Len(pairs)
    THEN Outcome(IF failed # <<>> THEN "Err" ELSE "Ok", FALSE, EvList(failed), h)
    ELSE LET k == pairs[i].key
             v == pairs[i].lit
             g == get(source, k)
             curr_source == g.v
             raise == Outcome("Raise", TRUE, EvList(<<>>), h)
         IN  IF g.tag = "raise" THEN raise
             ELSE CASE v.kind = "node" ->
                    LET h1 == [h EXCEPT ![v.id].parent_key = ParentKey(parent_key, k)]
                        o == Call(h1, v.id, curr_source)
                    IN  IF o.tag = "Raise" THEN Outcome("Raise", TRUE, EvList(<<>>), o.h)
                        ELSE validate_recursive(o.h, source, pairs, parent_key, i + 1,
                                 IF o.tag = "Err"
                                 THEN Append(failed, ErrValue(o.h, v.id, o)) ELSE failed)
               [] v.kind \in {"dict", "list"} ->
                    IF curr_source = None THEN raise
                    ELSE LET o == IF v.kind = "list"
                                  THEN validate_recursive(h, curr_source, <<KL(k, v)>>,
                                                          k \o <<"[*]">>, 1, <<>>)
                                  ELSE validate_recursive(h, curr_source, v.items,
                                                          k, 1, <<>>)
                         IN  IF o.tag = "Raise" THEN o
                             ELSE validate_recursive(o.h, source, pairs, parent_key, i + 1,
                                      IF o.tag = "Err" THEN Append(failed, o.ev) ELSE failed)
               [] v.kind \in {"type", "fn"} ->
                    LET r == Alloc(h, SpecificRule(v, "NONE", NoKey))
                        o == Call(r.h, r.id, curr_source)
                    IN  validate_recursive(o.h, source, pairs, parent_key, i + 1,
                            IF o.tag = "Err"
                            THEN Append(failed, ErrValue(o.h, r.id, o)) ELSE failed)
               [] OTHER -> raise

\* validate(source, validation_map)
validate(h, source, pairs) == validate_recursive(h, source, pairs, NoKey, 1, <<>>)

(***************************************************************************)
(* The state machine.  last = [op, node, a, lit, src, tag, exc, ev, pre]:  *)
(* the operation, the cell it made or called, the operands of the latest   *)
(* construction (a: the left operand of & and |; lit: the literal), the    *)
(* input of a call, the result of the call and the heap before the         *)
(* operation.                                                              *)
(***************************************************************************)
\* The most objects a run constructs.
MaxNodes == 4

\* The most RuleGroup(...) calls of a run.
MaxGroups == 2

\* The most members a RuleGroup(...) call is given.
MaxItems == 3

NoLast ==
    [op |-> "none", node |-> 0, a |-> 0, lit |-> LVal(None), src |-> None,
     tag |-> "none", exc |-> FALSE, ev |-> Ev(<<>>), pre |-> <<>>]

\* A thread that evaluates a RuleGroup: where it stands in the loop over the
\* members, what it has collected, and what it returned.
NoThread ==
    [pc |-> "idle", node |-> 0, src |-> None, i |-> 0, passed |-> <<>>,
     failed |-> <<>>, raised |-> FALSE, tag |-> "none", ev |-> Ev(<<>>),
     alone |-> "none", alone_ev |-> Ev(<<>>)]

Init == heap = <<>> /\ last = NoLast /\ threads = <<NoThread, NoThread>>

NumGroups(h) == Cardinality({i \in 1..Len(h) : IsGroup(h, i)})

\* The member lists a new group may be given: the n cells made last, in the
\* order they were made.
ItemLists(h) ==
    {[i \in 1..n |-> Len(h) - n + i] : n \in 1..(IF Len(h) < MaxItems THEN Len(h) ELSE MaxItems)}

\* r = Rule(fn, constraint, at_key)
NewRule(fn, c, k) ==
    /\ Len(heap) < MaxNodes
    /\ heap' = Append(heap, Rule("Rule", fn, c, k))
    /\ last' = [NoLast EXCEPT !.op = "Rule", !.node = Len(heap) + 1, !.pre = heap]
    /\ UNCHANGED threads

\* g = RuleGroup(items, constraint, at_key)
NewGroup(items, c, k) ==
    /\ Len(heap) < MaxNodes
    /\ NumGroups(heap) < MaxGroups
    /\ items \in ItemLists(heap)
    /\ heap' = Append(heap, RuleGroup(heap, items, c, k))
    /\ last' = [NoLast EXCEPT !.op = "RuleGroup", !.node = Len(heap) + 1, !.pre = heap]
    /\ UNCHANGED threads

\* node(x): evaluate a Rule or RuleGroup standalone.
CallNode(id, x) ==
    /\ id \in 1..Len(heap)
    /\ LET o == Call(heap, id, x)
       IN  /\ heap' = o.h
           /\ last' = [op |-> "call", node |-> id, a |-> last.a, lit |-> last.lit,
                       src |-> x, tag |-> o.tag, exc |-> o.exc, ev |-> o.ev,
                       pre |-> heap]
    /\ UNCHANGED threads

\* Spec: Rules without keys, groups of them under every constraint.
Preds == {isinstance_of("str"), is_nonempty}

Inputs == {StrV("Abc"), StrV(""), IntV("1")}

Next ==
    \/ \E fn \in Preds, c \in RC : NewRule(fn, c, NoKey)
    \/ \E items \in ItemLists(heap), c \in RGC : NewGroup(items, c, NoKey)
    \/ \E x \in Inputs : CallNode(Len(heap), x)

Spec == Init /\ [][Next]_vars

\* a & other
AndOp(a, other) ==
    /\ Len(heap) < MaxNodes
    /\ a \in 1..Len(heap)
    /\ LET r == And(heap, a, other)
       IN  /\ heap' = r.h
           /\ last' = [NoLast EXCEPT !.op = "and", !.node = r.id, !.a = a,
                                     !.lit = other, !.pre = heap]
    /\ UNCHANGED threads

\* a | other
OrOp(a, other) ==
    /\ Len(heap) < MaxNodes
    /\ a \in 1..Len(heap)
    /\ LET r == Or(heap, a, other)
       IN  /\ heap' = r.h
           /\ last' = [NoLast EXCEPT !.op = "or", !.node = r.id, !.a = a,
                                     !.lit = other, !.pre = heap]
    /\ UNCHANGED threads

\* other & b, other a type or a bare callable
RAndOp(other, b) ==
    /\ Len(heap) < MaxNodes
    /\ b \in 1..Len(heap)
    /\ heap[b].cls \in {"IsRequired", "IsOptional"}
    /\ LET r == Rand(heap, other, b)
       IN  /\ heap' = r.h
           /\ last' = [NoLast EXCEPT !.op = "rand", !.node = r.id, !.a = b,
                                     !.lit = other, !.pre = heap]
    /\ UNCHANGED threads

\* r = NotRequired()
NewNotRequired ==
    /\ Len(heap) < MaxNodes
    /\ heap' = Append(heap, Rule("NotRequired", Fn("always_true", "", None, 0, 0),
                                 "NONE", NoKey))
    /\ last' = [NoLast EXCEPT !.op = "NotRequired", !.node = Len(heap) + 1, !.pre = heap]
    /\ UNCHANGED threads

\* NotRequired() & other
NotRequiredAnd(a, other) ==
    /\ Len(heap) <= MaxNodes
    /\ a \in 1..Len(heap) /\ other \in 1..Len(heap)
    /\ heap[a].cls = "NotRequired"
    /\ LET r == NotRequired_and(heap, other)
       IN  /\ heap' = r.h
           /\ last' = [NoLast EXCEPT !.op = "notrequired", !.node = r.id, !.a = a,
                                     !.lit = LNode(other), !.pre = heap]
    /\ UNCHANGED threads

\* Two threads call the same keyless RuleGroup of Rules, each on its own
\* input.  alone is what the call gives on the schema as constructed.
StartBoth(g, x1, x2) ==
    /\ threads = <<NoThread, NoThread>>
    /\ g \in 1..Len(heap) /\ IsGroup(heap, g) /\ heap[g].key = NoKey
    /\ \A i \in 1..Len(heap[g].items) : IsRule(heap, heap[g].items[i])
    /\ x1 # x2
    /\ threads' = [t \in 1..2 |->
                      LET x == IF t = 1 THEN x1 ELSE x2
                      IN  [NoThread EXCEPT !.pc = "run", !.node = g, !.src = x, !.i = 1,
                                           !.alone = Call(heap, g, x).tag,
                                           !.alone_ev = Call(heap, g, x).ev]]
    /\ last' = [NoLast EXCEPT !.op = "threads", !.node = g, !.pre = heap]
    /\ UNCHANGED heap

\* One pass of thread t through the body of `for curr_item in self`: the
\* pass-down of the iterate flag, the call of the member, the result saved.
ThreadStep(t) ==
    LET th == threads[t]
        g == th.node
        cut == [heap EXCEPT ![g].items = SubSeq(@, 1, th.i)]
        acc == RunItems(cut, g, th.src, th.i,
                        [passed |-> th.passed, failed |-> th.failed, h |-> cut,
                         raised |-> FALSE])
    IN  /\ th.pc = "run" /\ th.i <= Len(heap[g].items)
        /\ heap' = [acc.h EXCEPT ![g].items = heap[g].items]
        /\ threads' = [threads EXCEPT ![t] =
                          [th EXCEPT !.i = @ + 1, !.passed = acc.passed,
                                     !.failed = acc.failed, !.raised = acc.raised,
                                     !.pc = IF acc.raised THEN "done" ELSE "run",
                                     !.tag = IF acc.raised THEN "Raise" ELSE "none"]]
        /\ UNCHANGED last

\* Thread t is past the loop: the required Rules and the constraint decide.
ThreadReturn(t) ==
    LET th == threads[t]
        g == th.node
        o == IF contains_required_rule(heap, Ev(th.failed))
             THEN Outcome("Err", FALSE, Ev(th.failed), heap)
             ELSE ApplyConstraint(heap, g, th.src, th.passed, th.failed)
    IN  /\ th.pc = "run" /\ th.i > Len(heap[g].items)
        /\ threads' = [threads EXCEPT ![t] =
                          [th EXCEPT !.pc = "done", !.tag = o.tag, !.ev = o.ev]]
        /\ UNCHANGED <<heap, last>>

\* g = _dict_to_rulegroup(d)
DictToRuleGroup(d) ==
    /\ Len(heap) < MaxNodes
    /\ LET r == dict_to_rulegroup(heap, d.items, NoKey)
       IN  /\ heap' = r.h
           /\ last' = [NoLast EXCEPT !.op = "dict_to_rulegroup", !.node = r.id,
                                     !.lit = d, !.pre = heap]
    /\ UNCHANGED threads

\* validate(source, validation_map)
Validate(source, vmap) ==
    /\ \A i \in 1..Len(vmap.items) :
          vmap.items[i].lit.kind = "node" => vmap.items[i].lit.id \in 1..Len(heap)
    /\ LET o == validate(heap, source, vmap.items)
       IN  /\ heap' = o.h
           /\ last' = [op |-> "validate", node |-> 0, a |-> 0, lit |-> vmap,
                       src |-> source, tag |-> o.tag, exc |-> o.exc, ev |-> o.ev,
                       pre |-> heap]
    /\ UNCHANGED threads

\* r = IsRequired()
NewIsRequired ==
    /\ Len(heap) < MaxNodes
    /\ heap' = Append(heap, IsRequired(NoKey))
    /\ last' = [NoLast EXCEPT !.op = "IsRequired", !.node = Len(heap) + 1, !.pre = heap]
    /\ UNCHANGED threads

\* r = IsOptional()
NewIsOptional ==
    /\ Len(heap) < MaxNodes
    /\ heap' = Append(heap, IsOptional(NoKey))
    /\ last' = [NoLast EXCEPT !.op = "IsOptional", !.node = Len(heap) + 1, !.pre = heap]
    /\ UNCHANGED threads

\* SpecKeys: Rules and RuleGroups with keys, evaluated on nested maps.
Keys == {NoKey, <<"a">>, <<"b">>}

Nest1(k, v) == DictV(<<KV(k, v)>>)

KeyInputs ==
    {DictV(<<>>),
     Nest1("a", StrV("Abc")), Nest1("a", IntV("1")),
     Nest1("a", Nest1("b", StrV("Abc"))), Nest1("a", Nest1("b", IntV("1"))),
     Nest1("a", Nest1("a", IntV("1"))),
     Nest1("a", Nest1("b", Nest1("a", StrV("Abc")))),
     Nest1("a", Nest1("b", Nest1("a", IntV("1"))))}

NextKeys ==
    \/ \E k \in Keys : NewRule(isinstance_of("str"), "NONE", k)
    \/ \E items \in ItemLists(heap), c \in {"ALL", "ALL_WHEN_DATA_PRESENT"}, k \in Keys :
          NewGroup(items, c, k)
    \/ \E x \in KeyInputs : CallNode(Len(heap), x)

SpecKeys == Init /\ [][NextKeys]_vars

\* SpecList: a Rule combined with a list literal of types, evaluated on lists.
MaxLen == 3

ListLits ==
    {LList(<<LType("str")>>), LList(<<LType("int")>>),
     LList(<<LType("str"), LType("int")>>)}

Elems == {StrV("Abc"), IntV("1"), FloatV("1.5")}

ListInputs ==
    {StrV("Abc")} \cup UNION {{ListV(e) : e \in [1..n -> Elems]} : n \in 0..MaxLen}

NextList ==
    \/ \E fn \in {in_range(2, 4), isinstance_of("list")} : NewRule(fn, "NONE", NoKey)
    \/ \E l \in ListLits : AndOp(Len(heap), l)
    \/ \E x \in ListInputs : last.node # 0 /\ CallNode(last.node, x)

SpecList == Init /\ [][NextList]_vars

\* SpecDict: dict literals of types made into groups, evaluated on maps.
Types == {"str", "int"}

DictLits ==
    {LDict(<<KL(<<"a">>, LType(t))>>) : t \in Types}
    \cup {LDict(<<KL(<<"a">>, LType(t)), KL(<<"b">>, LType(u))>>) : t, u \in Types}

Leaves == {StrV("Abc"), IntV("1"), BoolV("True"), None}

MapInputs ==
    {DictV(<<>>)}
    \cup {Nest1(k, v) : k \in {"a", "b"}, v \in Leaves}
    \cup {DictV(<<KV("a", v), KV("b", w)>>) : v, w \in Leaves}

NextDict ==
    \/ \E d \in DictLits : DictToRuleGroup(d)
    \/ \E x \in MapInputs : last.node # 0 /\ CallNode(last.node, x)

SpecDict == Init /\ [][NextDict]_vars

\* SpecValidate: validation maps of Rules, types and nested dict literals.
ValidationMaps(h) ==
    LET leaves == {LType("str")} \cup (IF h = <<>> THEN {} ELSE {LNode(Len(h))})
        nested == {LDict(<<KL(<<"a">>, l)>>) : l \in leaves}
    IN  {LDict(<<KL(<<"a">>, v)>>) : v \in leaves \cup nested}
        \cup {LDict(<<KL(<<"a">>, v), KL(<<"b">>, w)>>) : v \in leaves \cup nested, w \in leaves}

Sources ==
    {DictV(<<>>), Nest1("b", IntV("1")), Nest1("a", StrV("Abc")),
     Nest1("a", Nest1("a", IntV("1"))),
     DictV(<<KV("a", IntV("1")), KV("b", IntV("1"))>>),
     DictV(<<KV("a", Nest1("a", StrV("Abc"))), KV("b", StrV("Abc"))>>)}

NextValidate ==
    \/ NewRule(isinstance_of("str"), "NONE", NoKey)
    \/ \E x \in Sources : \E m \in ValidationMaps(heap) :
          Len(heap) < MaxNodes /\ Validate(x, m)

SpecValidate == Init /\ [][NextValidate]_vars

\* SpecRequired: {K: IsRequired() & {k1: IsRequired() & T1, ...}} built with &
\* and run through validate.
RequiredLeaves(h) ==
    {i \in 1..Len(h) : h[i].cls = "IsType" /\ h[i].constraint = "REQUIRED"}

RequiredDicts(h) ==
    {LDict(<<KL(<<"a">>, LNode(i))>>) : i \in RequiredLeaves(h)}
    \cup {LDict(<<KL(<<"a">>, LNode(p[1])), KL(<<"b">>, LNode(p[2]))>>) :
             p \in {q \in RequiredLeaves(h) \X RequiredLeaves(h) : q[1] # q[2]}}

RequiredSources ==
    {DictV(<<>>), Nest1("a", StrV("Abc")), Nest1("a", DictV(<<>>)),
     Nest1("b", Nest1("a", StrV("Abc"))),
     Nest1("a", Nest1("a", StrV("Abc"))), Nest1("a", Nest1("a", BoolV("True"))),
     Nest1("a", Nest1("b", BoolV("True"))),
     Nest1("a", DictV(<<KV("a", StrV("Abc")), KV("b", BoolV("True"))>>)),
     Nest1("a", DictV(<<KV("a", StrV("Abc")), KV("b", StrV("Abc"))>>)),
     Nest1("a", DictV(<<KV("a", BoolV("True")), KV("b", BoolV("True"))>>)),
     Nest1("a", DictV(<<KV("a", StrV("Abc")), KV("b", None)>>))}

NextRequired ==
    \/ NewIsRequired
    \/ \E t \in {"str", "bool"} :
          heap # <<>> /\ heap[1].cls = "IsRequired" /\ AndOp(1, LType(t))
    \/ \E d \in RequiredDicts(heap) :
          heap # <<>> /\ heap[1].cls = "IsRequired" /\ AndOp(1, d)
    \/ \E x \in RequiredSources :
          /\ last.node # 0
          /\ IsGroup(heap, last.node)
          /\ Validate(x, LDict(<<KL(<<"a">>, LNode(last.node))>>))

SpecRequired == Init /\ [][NextRequired]_vars

\* SpecCombine: Rules combined by & and | with nodes and literals of every
\* kind, and the result evaluated.
CombineLits(h) ==
    {LNode(i) : i \in 1..Len(h)}
    \cup {LType("str"), LFn(is_nonempty), LVal(StrV("Abc")),
          LDict(<<KL(<<"a">>, LType("str"))>>), LList(<<LType("str")>>)}

NextCombine ==
    \/ \E fn \in Preds, c \in RC : NewRule(fn, c, NoKey)
    \/ \E a \in {Len(heap), last.node} \ {0}, l \in CombineLits(heap) : AndOp(a, l)
    \/ \E a \in {Len(heap), last.node} \ {0}, l \in CombineLits(heap) : OrOp(a, l)
    \/ \E x \in {StrV("Abc"), StrV(""), IntV("1"), Nest1("a", StrV("Abc")),
                 ListV(<<StrV("Abc")>>)} :
          last.node # 0 /\ CallNode(last.node, x)

SpecCombine == Init /\ [][NextCombine]_vars

\* SpecFrame: & and | whose right operand is a node, or a dict or list that
\* holds a node.
FrameLits(h) ==
    UNION {{LNode(i), LDict(<<KL(<<"a">>, LNode(i))>>), LList(<<LNode(i)>>)} :
              i \in 1..Len(h)}

NextFrame ==
    \/ \E fn \in Preds, c \in RC, k \in {NoKey, <<"b">>} : NewRule(fn, c, k)
    \/ \E a \in {Len(heap), last.node} \ {0}, l \in FrameLits(heap) : AndOp(a, l)
    \/ \E a \in {Len(heap), last.node} \ {0}, l \in FrameLits(heap) : OrOp(a, l)

SpecFrame == Init /\ [][NextFrame]_vars

\* SpecSpecific: IsRequired() and IsOptional() combined by & on either side
\* with Rules, RuleGroups, a type and a bare callable, and the result evaluated.
NextSpecific ==
    \/ NewIsRequired
    \/ NewIsOptional
    \/ \E c \in RC, k \in {NoKey, <<"a">>} : NewRule(isinstance_of("str"), c, k)
    \/ \E items \in ItemLists(heap) : NewGroup(items, "ALL", NoKey)
    \/ \E a \in 1..Len(heap),
          l \in {LNode(i) : i \in 1..Len(heap)} \cup {LType("str"), LFn(is_nonempty)} :
          /\ ({heap[a].cls} \cup (IF l.kind = "node" THEN {heap[l.id].cls} ELSE {}))
                 \cap {"IsRequired", "IsOptional"} # {}
          /\ AndOp(a, l)
    \/ \E b \in 1..Len(heap), l \in {LType("str"), LFn(is_nonempty)} : RAndOp(l, b)
    \/ \E x \in {None, StrV("Abc"), IntV("1")} :
          last.op \in {"and", "rand"} /\ CallNode(last.node, x)

SpecSpecific == Init /\ [][NextSpecific]_vars

\* SpecNotRequired: NotRequired() & X for Rules, required or not, the result
\* of IsRequired() & r, and RuleGroups of Rules.
NextNotRequired ==
    \/ NewNotRequired
    \/ NewIsRequired
    \/ \E fn \in Preds, c \in RC, k \in {NoKey, <<"a">>} : NewRule(fn, c, k)
    \/ \E items \in ItemLists(heap) :
          /\ \A i \in 1..Len(items) : heap[items[i]].cls = "Rule"
          /\ NewGroup(items, "ALL_OF", NoKey)
    \/ \E a, i \in 1..Len(heap) :
          heap[a].cls = "IsRequired" /\ heap[i].cls = "Rule" /\ AndOp(a, LNode(i))
    \/ \E a, i \in 1..Len(heap) : heap[i].cls \in {"Rule", "RuleGroup"} /\ NotRequiredAnd(a, i)

SpecNotRequired == Init /\ [][NextNotRequired]_vars

\* SpecEval: Rules, RuleGroups and groups made to iterate by a list literal,
\* evaluated standalone and through validate, any node on any input, in any
\* order.
EvalInputs == {StrV("Abc"), IntV("1"), ListV(<<StrV("Abc")>>), ListV(<<IntV("1")>>)}

NextEval ==
    \/ NewRule(isinstance_of("str"), "NONE", NoKey)
    \/ \E items \in ItemLists(heap) : NewGroup(items, "ALL", NoKey)
    \/ \E a, i \in 1..Len(heap) :
          IsRule(heap, a) /\ IsGroup(heap, i) /\ AndOp(a, LList(<<LNode(i)>>))
    \/ \E id \in 1..Len(heap), x \in EvalInputs : CallNode(id, x)
    \/ \E x \in {StrV("Abc"), ListV(<<StrV("Abc")>>)} :
          /\ last.op \in {"RuleGroup", "and"}
          /\ Validate(Nest1("a", x), LDict(<<KL(<<"a">>, LNode(last.node))>>))

SpecEval == Init /\ [][NextEval]_vars

\* SpecThreads: a schema is constructed, then two threads evaluate it, their
\* passes through the member loop interleaved in every order.
NextThreads ==
    \/ \E c \in RC : threads[1].pc = "idle" /\ NewRule(isinstance_of("str"), c, NoKey)
    \/ \E items \in ItemLists(heap), c \in {"ALL", "AT_LEAST_ONE"} :
          threads[1].pc = "idle" /\ NewGroup(items, c, NoKey)
    \/ \E a, i \in 1..Len(heap) :
          /\ threads[1].pc = "idle"
          /\ IsRule(heap, a) /\ IsGroup(heap, i) /\ AndOp(a, LList(<<LNode(i)>>))
    \/ \E g \in 1..Len(heap), x1, x2 \in EvalInputs : StartBoth(g, x1, x2)
    \/ \E t \in 1..2 : ThreadStep(t)
    \/ \E t \in 1..2 : ThreadReturn(t)

SpecThreads == Init /\ [][NextThreads]_vars

(***************************************************************************)
(* What the claims speak of, computed apart from RuleGroup.__call__.       *)
(***************************************************************************)
CalledRule == last.op = "call" /\ IsRule(last.pre, last.node)

CalledGroup == last.op = "call" /\ IsGroup(last.pre, last.node)

\* The input a node hands to its predicate or members: the value at its key
\* when the source is a dict and the node has a key, the source otherwise.
Resolved(h, id, source) ==
    IF source.t = "dict" /\ h[id].key # NoKey THEN get(source, h[id].key).v ELSE source

\* The required Rules reachable from a node that fail on the input that
\* reaches them.
RECURSIVE FailingRequired(_, _, _)
FailingRequired(h, id, source) ==
    IF IsRule(h, id)
    THEN IF h[id].constraint = "REQUIRED" /\ Rule_call(h, id, source).tag = "Err"
         THEN {id} ELSE {}
    ELSE UNION {FailingRequired(h, h[id].items[i], Resolved(h, id, source)) :
                   i \in 1..Len(h[id].items)}

\* The Rules an evidence item names, at any depth.
RECURSIVE EvRules(_, _)
EvRules(h, item) ==
    IF item.k = "ref" /\ IsRule(h, item.id) THEN {item.id}
    ELSE UNION {EvRules(h, Members(h, item)[i]) : i \in 1..Len(Members(h, item))}

\* The direct members of a group whose own call on the resolved input has the
\* given tag, in member order.
RECURSIVE Positions(_, _, _, _, _)
Positions(h, gid, source, tag, i) ==
    IF i > Len(h[gid].items) THEN <<>>
    ELSE (IF Call(h, h[gid].items[i], Resolved(h, gid, source)).tag = tag
          THEN <<i>> ELSE <<>>)
         \o Positions(h, gid, source, tag, i + 1)

\* The evidence those members leave: a Rule itself, a nested group's own
\* evidence.
ChildEvidence(h, gid, source, tag) ==
    LET ps == Positions(h, gid, source, tag, 1)
    IN  [j \in 1..Len(ps) |->
            IF IsRule(h, h[gid].items[ps[j]]) THEN Ref(h[gid].items[ps[j]])
            ELSE Call(h, h[gid].items[ps[j]], Resolved(h, gid, source)).ev]

NumPassed(h, gid, source) == Len(Positions(h, gid, source, "Ok", 1))

(***************************************************************************)
(* C1: validate evaluates every key of the validation map on its own: it   *)
(* returns Ok iff each key, taken alone, evaluates to Ok on the value at   *)
(* that key, and otherwise Err with exactly one evidence entry per failing *)
(* key, in map order.                                                      *)
(***************************************************************************)
\* The keys of the map that do not evaluate to Ok when validated alone, in
\* map order.
RECURSIVE FailingKeys(_, _, _, _)
FailingKeys(h, source, pairs, i) ==
    IF i > Len(pairs) THEN <<>>
    ELSE (IF validate(h, source, <<pairs[i]>>).tag = "Ok" THEN <<>> ELSE <<i>>)
         \o FailingKeys(h, source, pairs, i + 1)

C1_ValidateEveryKey ==
    last.op = "validate" =>
        LET m == last.lit.items
            fk == FailingKeys(last.pre, last.src, m, 1)
        IN  IF fk = <<>> THEN last.tag = "Ok"
            ELSE /\ last.tag = "Err"
                 /\ Len(last.ev.items) = Len(fk)
                 /\ \A j \in 1..Len(fk) :
                       m[fk[j]].lit.kind = "node" =>
                           last.ev.items[j] \in
                               {Tup(m[fk[j]].lit.id, e) : e \in {<<>>, last.ev.items[j].items}}

(***************************************************************************)
(* C2: for a schema of Rules, RuleGroups and nested dict literals of them  *)
(* and any source data, with a key of the schema missing or holding a      *)
(* value of the wrong shape, validate returns Ok or Err: no exception      *)
(* leaves it.                                                              *)
(***************************************************************************)
RECURSIVE WellFormed(_)
WellFormed(lit) ==
    \/ lit.kind = "node"
    \/ /\ lit.kind = "dict"
       /\ \A i \in 1..Len(lit.items) : WellFormed(lit.items[i].lit)

C2_NeverRaises ==
    (last.op \in {"validate", "call"} /\ WellFormed(last.lit)) =>
        last.tag \in {"Ok", "Err"}

(***************************************************************************)
(* C3: calling a Rule never lets an exception of its predicate out: where  *)
(* the predicate raises the call returns Err carrying the exception, a     *)
(* falsy result gives Err and a truthy result gives Ok.                    *)
(***************************************************************************)
C3_RuleCatchesPredicate ==
    CalledRule =>
        LET pe == PredEval(last.pre[last.node].fn,
                           Resolved(last.pre, last.node, last.src))
        IN  /\ last.tag \in {"Ok", "Err"}
            /\ pe = "X" => (last.tag = "Err" /\ last.exc)
            /\ pe = "F" => (last.tag = "Err" /\ ~last.exc)
            /\ pe = "T" => last.tag = "Ok"

C3_Witness ==
    /\ CalledRule
    /\ PredEval(last.pre[last.node].fn, last.src) = "X"
    /\ last.tag = "Err"
    /\ last.exc

C5_AllConstraint ==
    (CalledGroup /\ last.pre[last.node].constraint = "ALL") =>
        LET n == Len(last.pre[last.node].items)
            np == NumPassed(last.pre, last.node, last.src)
        IN  /\ last.tag \in {"Ok", "Err"}
            /\ last.tag = "Ok" <=> np = n
            /\ last.ev = Ev(ChildEvidence(last.pre, last.node, last.src, last.tag))
            /\ last.tag = "Ok" => Len(last.ev.items) = n

\* An ALL group with a nested group among its members fails with some member
\* passing and more than one failing.
C5_Witness ==
    /\ CalledGroup
    /\ last.pre[last.node].constraint = "ALL"
    /\ last.tag = "Err"
    /\ NumPassed(last.pre, last.node, last.src) >= 1
    /\ Len(last.ev.items) >= 2
    /\ \E i \in 1..Len(last.ev.items) : last.ev.items[i].k = "ev"

(***************************************************************************)
(* C6: provided no required Rule fails, a group with constraint            *)
(* AT_LEAST_N(n), n in 1..3, returns Ok iff at least n of its direct       *)
(* members pass; a nested group counts as one member.                      *)
(***************************************************************************)
C6_AtLeastN ==
    \A n \in 1..3 :
        (/\ CalledGroup
         /\ last.pre[last.node].constraint
               = <<"AT_LEAST_ONE", "AT_LEAST_TWO", "AT_LEAST_THREE">>[n]
         /\ FailingRequired(last.pre, last.node, last.src) = {}) =>
            (last.tag = "Ok" <=> NumPassed(last.pre, last.node, last.src) >= n)

\* Exactly n - 1 = 1 of three members pass an AT_LEAST_TWO group, one of the
\* members being a nested group of two Rules: Err.
C6_Witness ==
    /\ CalledGroup
    /\ last.pre[last.node].constraint = "AT_LEAST_TWO"
    /\ Len(last.pre[last.node].items) = 3
    /\ \E i \in 1..3 :
          /\ IsGroup(last.pre, last.pre[last.node].items[i])
          /\ last.pre[last.pre[last.node].items[i]].n_rules = 2
    /\ FailingRequired(last.pre, last.node, last.src) = {}
    /\ NumPassed(last.pre, last.node, last.src) = 1
    /\ last.tag = "Err"

(***************************************************************************)
(* C7: a group with constraint ALL_REQUIRED_RULES returns Err iff a        *)
(* required Rule in it fails; when none fails it returns Ok with the       *)
(* passed members as evidence, even if every optional member fails.        *)
(***************************************************************************)
C7_AllRequiredRules ==
    (CalledGroup /\ last.pre[last.node].constraint = "ALL_REQUIRED_RULES") =>
        /\ last.tag = "Err" <=> FailingRequired(last.pre, last.node, last.src) # {}
        /\ last.tag # "Err" =>
              /\ last.tag = "Ok"
              /\ last.ev = Ev(ChildEvidence(last.pre, last.node, last.src, "Ok"))

\* Every member is optional and fails: Ok with empty evidence.
C7_Witness ==
    /\ CalledGroup
    /\ last.pre[last.node].constraint = "ALL_REQUIRED_RULES"
    /\ Len(last.pre[last.node].items) >= 2
    /\ NumPassed(last.pre, last.node, last.src) = 0
    /\ last.tag = "Ok"
    /\ last.ev = Ev(<<>>)

(***************************************************************************)
(* C8: a keyed group with constraint ALL_WHEN_DATA_PRESENT and no required *)
(* Rule in it returns Ok on a map where its key path is absent, and Err on *)
(* a map where the key path is present and the data there fails a direct   *)
(* member, be it a Rule with or without a key or a nested keyed group.     *)
(***************************************************************************)
C8_WhenDataPresent ==
    (/\ CalledGroup
     /\ last.pre[last.node].constraint = "ALL_WHEN_DATA_PRESENT"
     /\ last.pre[last.node].key # NoKey
     /\ last.src.t = "dict"
     /\ ~contains_required_rule(last.pre, Ref(last.node))) =>
        LET at == get(last.src, last.pre[last.node].key).v
        IN  /\ at = None => last.tag = "Ok"
            /\ (at # None /\ Positions(last.pre, last.node, last.src, "Err", 1) # <<>>)
                  => last.tag = "Err"

(***************************************************************************)
(* C9: R & [A1, ..., Ak] evaluated on a list returns Ok iff R passes and   *)
(* every element of the list is an instance of at least one alternative    *)
(* Ai, and Err otherwise.                                                  *)
(***************************************************************************)
C9_ListAlternatives ==
    (/\ last.op = "call"
     /\ last.lit.kind = "list"
     /\ last.a # 0
     /\ last.src.t = "list") =>
        LET alts == last.lit.items
            rOk == Call(last.pre, last.a, last.src).tag = "Ok"
            each == \A j \in 1..Len(last.src.items) :
                       \E i \in 1..Len(alts) : IsInstance(last.src.items[j], alts[i].ty)
        IN  last.tag = (IF rOk /\ each THEN "Ok" ELSE "Err")

(***************************************************************************)
(* C10: the group _dict_to_rulegroup makes of a dict literal d of types,   *)
(* evaluated on a map m, returns Ok iff for every key k of d the map has k *)
(* and m[k] is an instance of d[k]; otherwise Err whose evidence is        *)
(* exactly the Rules of the failing keys, in the order of d.               *)
(***************************************************************************)
\* The positions of d whose key is missing from m or holds no instance of
\* the type.
RECURSIVE Mismatches(_, _, _)
Mismatches(d, m, i) ==
    IF i > Len(d) THEN <<>>
    ELSE (IF /\ HasKey(m, d[i].key[1])
             /\ IsInstance(Lookup(m, d[i].key[1]), d[i].lit.ty)
          THEN <<>> ELSE <<i>>)
         \o Mismatches(d, m, i + 1)

C10_DictOfTypes ==
    (/\ last.op = "call"
     /\ last.lit.kind = "dict"
     /\ last.src.t = "dict") =>
        LET d == last.lit.items
            mm == Mismatches(d, last.src, 1)
        IN  IF mm = <<>> THEN last.tag = "Ok"
            ELSE /\ last.tag = "Err"
                 /\ Len(last.ev.items) = Len(mm)
                 /\ \A j \in 1..Len(mm) :
                       /\ last.ev.items[j].k = "ref"
                       /\ last.pre[last.ev.items[j].id].key = d[mm[j]].key
                       /\ last.pre[last.ev.items[j].id].fn = isinstance_of(d[mm[j]].lit.ty)

\* {"a": str, "b": int} on {"a": 1, "b": "Abc"}: Err naming both Rules.
C10_Witness ==
    /\ last.op = "call"
    /\ last.lit = LDict(<<KL(<<"a">>, LType("str")), KL(<<"b">>, LType("int"))>>)
    /\ last.src = DictV(<<KV("a", IntV("1")), KV("b", StrV("Abc"))>>)
    /\ last.tag = "Err"
    /\ Len(last.ev.items) = 2

(***************************************************************************)
(* C11: validate with {K: IsRequired() & {k1: IsRequired() & T1, ...}}     *)
(* returns Ok iff the source holds a map at K in which every ki is present *)
(* with an instance of Ti; a ki that holds a value of another type gives   *)
(* Err whose evidence names the Rule of ki.                                *)
(***************************************************************************)
\* g is what IsRequired() & {k1: IsRequired() & T1, ...} builds: the
\* IsRequired Rule, IsType(dict) and the group of the required keyed leaves.
RequiredMapSchema(h, g) ==
    /\ IsGroup(h, g)
    /\ h[g].constraint = "ALL"
    /\ Len(h[g].items) = 3
    /\ h[h[g].items[1]].cls = "IsRequired"
    /\ h[h[g].items[2]].fn = isinstance_of("dict")
    /\ IsGroup(h, h[g].items[3])
    /\ \A i \in 1..Len(h[h[g].items[3]].items) :
          LET r == h[h[h[g].items[3]].items[i]]
          IN  r.cls = "IsType" /\ r.constraint = "REQUIRED" /\ Len(r.key) = 1

\* The Rules named by the evidence of the first failing key of validate.
ValidateEvRules(h, ev) ==
    IF ev.items = <<>> \/ ev.items[1].items = <<>> THEN {}
    ELSE EvRules(h, ev.items[1].items[1])

C11_RequiredMapEndToEnd ==
    (/\ last.op = "validate"
     /\ Len(last.lit.items) = 1
     /\ last.lit.items[1].lit.kind = "node"
     /\ RequiredMapSchema(last.pre, last.lit.items[1].lit.id)) =>
        LET K == last.lit.items[1].key[1]
            leaves == last.pre[last.pre[last.lit.items[1].lit.id].items[3]].items
            at == IF HasKey(last.src, K) THEN Lookup(last.src, K) ELSE None
            Present(r) == at.t = "dict" /\ HasKey(at, last.pre[r].key[1])
            Typed(r) == IsInstance(Lookup(at, last.pre[r].key[1]), last.pre[r].fn.ty)
        IN  /\ last.tag \in {"Ok", "Err"}
            /\ last.tag = "Ok" <=>
                  \A i \in 1..Len(leaves) : Present(leaves[i]) /\ Typed(leaves[i])
            /\ \A i \in 1..Len(leaves) :
                  (Present(leaves[i]) /\ ~Typed(leaves[i])) =>
                      /\ last.tag = "Err"
                      /\ leaves[i] \in ValidateEvRules(last.pre, last.ev)

\* {"a": IsRequired() & {"a": IsRequired() & str, "b": IsRequired() & bool}}
\* on {"a": {"a": "Abc", "b": "Abc"}}: Err naming the Rule of b only.
C11_Witness ==
    /\ last.op = "validate"
    /\ last.lit.items[1].lit.kind = "node"
    /\ RequiredMapSchema(last.pre, last.lit.items[1].lit.id)
    /\ last.src = Nest1("a", DictV(<<KV("a", StrV("Abc")), KV("b", StrV("Abc"))>>))
    /\ last.tag = "Err"
    /\ \E r \in ValidateEvRules(last.pre, last.ev) :
          last.pre[r].key = <<"b">> /\ last.pre[r].fn = isinstance_of("bool")
    /\ Cardinality(ValidateEvRules(last.pre, last.ev)) = 1

(***************************************************************************)
(* C12: a Rule with key k called on a map applies its predicate to the     *)
(* value at k (None when k is absent) and on any other input to the input  *)
(* itself; a RuleGroup with key g hands the value at g to its members, so  *)
(* a member Rule with key k is checked against the value at g, then k.     *)
(***************************************************************************)
\* The value a node with key k takes from v: v[k] (None when absent) for a
\* map v and a key, v itself otherwise.
ValueAt(v, k) ==
    IF v.t = "dict" /\ k # NoKey
    THEN (IF HasKey(v, k[1]) THEN Lookup(v, k[1]) ELSE None)
    ELSE v

\* The direct members of a group that are Rules and pass (want = TRUE) or do
\* not pass (want = FALSE) on the value at the group's key, then their own.
RECURSIVE MemberRules(_, _, _, _, _)
MemberRules(h, gid, source, want, i) ==
    IF i > Len(h[gid].items) THEN <<>>
    ELSE LET c == h[gid].items[i]
             v == ValueAt(ValueAt(source, h[gid].key), h[c].key)
         IN  (IF IsRule(h, c) /\ ((PredEval(h[c].fn, v) = "T") <=> want)
              THEN <<Ref(c)>> ELSE <<>>)
             \o MemberRules(h, gid, source, want, i + 1)

ExpansionOf(h, g, lit) ==
    LET m == h[g].items
    IN  CASE lit.kind = "node" -> m = <<m[1], lit.id>>
          [] lit.kind = "type" ->
               Len(m) = 2 /\ h[m[2]] = Rule("IsType", isinstance_of(lit.ty), "NONE", NoKey)
          [] lit.kind = "fn" ->
               Len(m) = 2 /\ h[m[2]] = Rule("Rule", lit.fn, "NONE", NoKey)
          [] lit.kind = "val" ->
               Len(m) = 2 /\ h[m[2]] = Rule("Rule", equals(lit.val), "NONE", NoKey)
          [] lit.kind = "dict" ->
               /\ Len(m) = 3
               /\ h[m[2]] = Rule("IsType", isinstance_of("dict"), "NONE", NoKey)
               /\ IsGroup(h, m[3]) /\ ~h[m[3]].iter
               /\ Len(h[m[3]].items) = Len(lit.items)
               /\ \A i \in 1..Len(lit.items) :
                      h[h[m[3]].items[i]] =
                          Rule("IsType", isinstance_of(lit.items[i].lit.ty), "NONE",
                               lit.items[i].key)
          [] lit.kind = "list" ->
               /\ Len(m) = 3
               /\ h[m[2]] = Rule("IsType", isinstance_of("list"), "NONE", NoKey)
               /\ IsGroup(h, m[3]) /\ h[m[3]].iter
               /\ Len(h[m[3]].items) = Len(lit.items)
               /\ \A i \in 1..Len(lit.items) :
                      h[h[m[3]].items[i]] =
                          [Rule("IsType", isinstance_of(lit.items[i].ty), "NONE", NoKey)
                              EXCEPT !.iter = TRUE]

\* C13: n & other builds a group with constraint ALL and n | other one with
\* constraint AT_LEAST_ONE; its first member is n and the further members are
\* the expansion of other by kind (node as is, type as IsType, dict as
\* IsType(dict) plus the dict's schema, list as IsType(list) plus the list's
\* schema, callable as a Rule, scalar as an equality Rule).  When no required
\* Rule fails, (a & b)(x) is Ok iff a(x) and b(x) are Ok, and (a | b)(x) is
\* Ok iff a(x) or b(x) is Ok.
C13_Combine ==
    /\ (last.op \in {"and", "or"} /\ IsGroup(heap, last.node)) =>
          /\ heap[last.node].constraint =
                 (IF last.op = "and" THEN "ALL" ELSE "AT_LEAST_ONE")
          /\ heap[last.node].key = NoKey
          /\ heap[last.node].items[1] = last.a
          /\ ExpansionOf(heap, last.node, last.lit)
    /\ (/\ CalledGroup /\ last.a # 0 /\ last.lit.kind = "node"
        /\ FailingRequired(last.pre, last.node, last.src) = {}) =>
          LET aOk == Call(last.pre, last.a, last.src).tag = "Ok"
              bOk == Call(last.pre, last.lit.id, last.src).tag = "Ok"
          IN  (last.tag = "Ok") <=>
                  (IF last.pre[last.node].constraint = "ALL"
                   THEN aOk /\ bOk ELSE aOk \/ bOk)

\* a | b was evaluated on an input that only one of a and b accepts.
C13_Witness ==
    /\ CalledGroup /\ last.a # 0 /\ last.lit.kind = "node"
    /\ last.pre[last.node].constraint = "AT_LEAST_ONE"
    /\ FailingRequired(last.pre, last.node, last.src) = {}
    /\ Call(last.pre, last.a, last.src).tag # Call(last.pre, last.lit.id, last.src).tag
    /\ last.tag = "Ok"

\* The nodes a literal holds, at any depth.
RECURSIVE LitNodes(_)
LitNodes(lit) ==
    CASE lit.kind = "node" -> {lit.id}
      [] lit.kind = "dict" ->
           UNION {LitNodes(lit.items[i].lit) : i \in 1..Len(lit.items)}
      [] lit.kind = "list" ->
           UNION {LitNodes(lit.items[i]) : i \in 1..Len(lit.items)}
      [] OTHER -> {}

\* C14: a & b and a | b change no pre-existing Rule or RuleGroup: every
\* field of a, of b and of every node held in a dict or list b is the same
\* after the operator as before it.
C14_CombineFrame ==
    last.op \in {"and", "or"} =>
        \A i \in {last.a} \cup LitNodes(last.lit) : heap[i] = last.pre[i]

C16_NotRequired ==
    last.op = "notrequired" =>
        LET X == last.lit.id
        IN  /\ last.node > Len(last.pre)
            /\ \A i \in 1..Len(last.pre) : heap[i] = last.pre[i]
            /\ IsRule(last.pre, X) =>
                  heap[last.node] = [last.pre[X] EXCEPT !.constraint = "NONE"]
            /\ IsGroup(last.pre, X) =>
                  /\ IsGroup(heap, last.node)
                  /\ heap[last.node].constraint = "ALL_WHEN_DATA_PRESENT"

C18_Determinism ==
    last.op = "call" =>
        \A g \in 1..Len(last.pre), x \in EvalInputs :
            IsGroup(last.pre, g) =>
                /\ Call(heap, g, x).tag = Call(last.pre, g, x).tag
                /\ Call(heap, g, x).ev = Call(last.pre, g, x).ev

\* C19: evaluating a Rule or RuleGroup, standalone or through validate,
\* changes no attribute of any node and adds none: key, constraint, iterate
\* flag, members, _n_rules and the rest are after the call what they were.
C19_EvaluationFrame ==
    last.op \in {"call", "validate"} => heap = last.pre

\* C20: when two threads evaluate the same fully constructed schema on
\* different inputs, under every interleaving each thread returns the tag
\* and the evidence it would get evaluating its input alone.
C20_ConcurrentEvaluation ==
    \A t \in 1..2 :
        threads[t].pc = "done" =>
            /\ threads[t].tag = threads[t].alone
            /\ threads[t].ev = threads[t].alone_ev

\* C21: evaluating an iterating group, one built from a list literal, on an
\* input that is not a list raises to the caller; it does not return an Err
\* outcome.  In R & [A1, ..., Ak] the iterating group is the third member.
C21_IterateOnNonList ==
    (/\ last.op = "call"
     /\ last.lit.kind = "list"
     /\ last.a # 0
     /\ last.src.t # "list") =>
        LET l == last.pre[last.node].items[3]
        IN  /\ last.pre[l].iter
            /\ Call(last.pre, l, last.src).tag = "Raise"
            /\ last.tag = "Raise"

\* C27: the RuleGroup built from a list literal has constraint AT_LEAST_ONE
\* and the iterate flag set, and its members are the expansions of the
\* list's elements in order: r & [A1, ..., Ak] is
\* [r, IsType(list), RuleGroup([IsType(A1), ..., IsType(Ak)], AT_LEAST_ONE)].
C27_ListLiteralGroup ==
    (last.op = "and" /\ last.lit.kind = "list") =>
        LET m == heap[last.node].items
            l == heap[m[3]]
        IN  /\ m[1] = last.a
            /\ heap[m[2]].fn = isinstance_of("list")
            /\ l.kind = "RuleGroup" /\ l.iter
            /\ l.constraint = "AT_LEAST_ONE"
            /\ Len(l.items) = Len(last.lit.items)
            /\ \A i \in 1..Len(l.items) :
                   /\ heap[l.items[i]].cls = "IsType"
                   /\ heap[l.items[i]].fn = isinstance_of(last.lit.items[i].ty)

(***************************************************************************)
(* SpecMap: validation maps whose value is a list literal, a bare scalar   *)
(* or a class, on data that holds a list or a scalar at the key; and       *)
(* dict literals that name one Rule under one or two keys.                 *)
(***************************************************************************)
NextMap ==
    \/ NewRule(isinstance_of("str"), "NONE", NoKey)
    \/ \E x \in {Nest1("a", ListV(<<StrV("Abc")>>)), Nest1("a", ListV(<<IntV("1")>>)),
                 Nest1("a", ListV(<<>>)), Nest1("a", StrV("Abc")), Nest1("a", IntV("1")),
                 DictV(<<>>)} :
       \E v \in {LList(<<LType("str")>>), LList(<<LNode(Len(heap))>>),
                 LVal(StrV("Abc")), LVal(IntV("1")), LType("str"), LNode(Len(heap))} :
          Len(heap) < MaxNodes /\ Validate(x, LDict(<<KL(<<"a">>, v)>>))
    \/ \E i, j \in 1..Len(heap) :
          DictToRuleGroup(LDict(<<KL(<<"a">>, LNode(i)), KL(<<"b">>, LNode(j))>>))
    \/ \E x \in {DictV(<<KV("a", StrV("Abc")), KV("b", StrV("Abc"))>>),
                 DictV(<<KV("a", StrV("Abc")), KV("b", IntV("1"))>>),
                 DictV(<<KV("a", IntV("1")), KV("b", StrV("Abc"))>>),
                 DictV(<<KV("a", IntV("1")), KV("b", IntV("1"))>>)} :
          last.op = "dict_to_rulegroup" /\ CallNode(last.node, x)

SpecMap == Init /\ [][NextMap]_vars

\* C22: where the value of a validation map is a list literal and the data
\* holds a list at that key, validate does not raise: it returns Ok when every
\* element of the list matches the literal and Err otherwise.
C22_ListLiteralOnList ==
    (/\ last.op = "validate"
     /\ last.lit.items[1].lit.kind = "list"
     /\ get(last.src, <<"a">>).v.t = "list") =>
        LET elems == get(last.src, <<"a">>).v.items
        IN  last.tag = IF \A i \in 1..Len(elems) : IsInstance(elems[i], "str")
                       THEN "Ok" ELSE "Err"

\* C23: where the value of a validation map is a bare scalar, validate checks
\* equality with it: Ok iff the value found at the key equals the scalar.
C23_ScalarIsEquality ==
    (last.op = "validate" /\ last.lit.items[1].lit.kind = "val") =>
        last.tag = IF PyEq(get(last.src, <<"a">>).v, last.lit.items[1].lit.val)
                   THEN "Ok" ELSE "Err"

(***************************************************************************)
(* SpecGet: get(source, key) in non-strict mode, for `.`-chained key paths *)
(* of up to MaxLen names on maps nested up to two levels.                  *)
(***************************************************************************)
\* res = get(source, key); last.lit records the call as the pair key: res.
GetOp(source, key) ==
    /\ LET g == get(source, key)
       IN  last' = [NoLast EXCEPT !.op = "get", !.src = source,
                                  !.lit = LDict(<<KL(key, LVal(g.v))>>),
                                  !.tag = IF g.tag = "raise" THEN "Raise" ELSE "Ok",
                                  !.exc = (g.tag = "raise"), !.pre = heap]
    /\ UNCHANGED <<heap, threads>>

NextGet ==
    \E k1, k2 \in {"a", "b"} : \E leaf \in {None, StrV("Abc"), StrV(""), IntV("1")} :
    \E source \in {DictV(<<>>), Nest1(k1, leaf), Nest1(k1, Nest1(k2, leaf))} :
    \E n \in 1..MaxLen : \E key \in [1..n -> {"a", "b"}] :
        GetOp(source, key)

SpecGet == Init /\ [][NextGet]_vars

\* C24: non-strict get never raises for a path that is missing from the
\* source: a missing key, or a path that continues below a scalar or None,
\* gives None.
C24_GetNeverRaises ==
    last.op = "get" =>
        /\ last.tag # "Raise"
        /\ ~HasKey(last.src, last.lit.items[1].key[1]) => last.lit.items[1].lit.val = None

(***************************************************************************)
(* C25: when a RuleGroup is evaluated every direct member is called and    *)
(* lands in exactly one of passed and failed, in member order, so that     *)
(* |passed| + |failed| is the number of members; a nested group lands      *)
(* there as a nested group that holds only its own passed (failed)         *)
(* members, never flattened into its parent's evidence.                    *)
(***************************************************************************)
\* The evidence a member leaves in a list of its parent: a Rule itself, a
\* group a nested list of the evidence of those of its own members that have
\* the same tag.
RECURSIVE MemberEvidence(_, _, _, _)
MemberEvidence(h, c, source, tag) ==
    IF IsRule(h, c) THEN Ref(c)
    ELSE LET own == Positions(h, c, source, tag, 1)
         IN  [k |-> "ev", id |-> 0,
              items |-> [m \in 1..Len(own) |->
                            MemberEvidence(h, h[c].items[own[m]], source, tag)]]

C26_DictKeysScoped ==
    (/\ last.op \in {"dict_to_rulegroup", "call"}
     /\ last.lit.kind = "dict"
     /\ \A i \in 1..Len(last.lit.items) : IsRule(last.pre, last.lit.items[i].lit.id)) =>
        LET d == last.lit.items
            g == heap[last.node]
        IN  /\ Len(g.items) = Len(d)
            /\ \A i \in 1..Len(d) :
                  /\ heap[g.items[i]].key = d[i].key
                  /\ heap[g.items[i]].fn = last.pre[d[i].lit.id].fn
            /\ last.op = "call" =>
                  (last.tag = "Ok" <=>
                      \A i \in 1..Len(d) :
                          PredEval(last.pre[d[i].lit.id].fn,
                                   Lookup(last.src, d[i].key[1])) = "T")

(***************************************************************************)
(* SpecBuild: groups built by RuleGroup(...) and then changed by append    *)
(* and extend.  A group is only put into a group made after it, so no      *)
(* group reaches itself.                                                   *)
(***************************************************************************)
\* g.append(item)
AppendOp(gid, item) ==
    /\ IsGroup(heap, gid)
    /\ IsRule(heap, item) \/ item < gid
    /\ Len(heap[gid].items) < MaxItems
    /\ heap' = append(heap, gid, item)
    /\ last' = [NoLast EXCEPT !.op = "append", !.node = gid, !.a = item, !.pre = heap]
    /\ UNCHANGED threads

\* g.extend(item): item is a RuleGroup, or a plain list of Rules, which only
\* list.extend sees.
ExtendOp(gid, item) ==
    /\ IsGroup(heap, gid)
    /\ item.kind = "node" => IsGroup(heap, item.id) /\ item.id < gid
    /\ item.kind = "list" => \A i \in 1..Len(item.items) : IsRule(heap, item.items[i].id)
    /\ Len(heap[gid].items)
          + (IF item.kind = "node" THEN Len(heap[item.id].items) ELSE Len(item.items))
          <= MaxItems
    /\ heap' = IF item.kind = "node" THEN extend(heap, gid, item.id)
               ELSE [heap EXCEPT ![gid].items =
                        @ \o [i \in 1..Len(item.items) |-> item.items[i].id]]
    /\ last' = [NoLast EXCEPT !.op = "extend", !.node = gid, !.lit = item, !.pre = heap]
    /\ UNCHANGED threads

NextBuild ==
    \/ NewRule(isinstance_of("str"), "NONE", NoKey)
    \/ \E items \in ItemLists(heap) : NewGroup(items, "ALL", NoKey)
    \/ \E gid, item \in 1..Len(heap) : AppendOp(gid, item)
    \/ \E gid, i, j \in 1..Len(heap) :
          \E item \in {LNode(i), LList(<<LNode(i)>>), LList(<<LNode(i), LNode(j)>>)} :
             ExtendOp(gid, item)

SpecBuild == Init /\ [][NextBuild]_vars

(***************************************************************************)
(* C28: after any sequence of construction operations the leaf count of    *)
(* every RuleGroup is the number of Rule leaves reachable through it: the  *)
(* sum of its members' leaf counts, a Rule counting 1.                     *)
(***************************************************************************)
\* The Rule leaves reachable through a node, counted with multiplicity.
RECURSIVE LeafCount(_, _), LeafSum(_, _)
LeafCount(h, id) == IF IsRule(h, id) THEN 1 ELSE LeafSum(h, h[id].items)

LeafSum(h, items) ==
    IF items = <<>> THEN 0 ELSE LeafCount(h, Head(items)) + LeafSum(h, Tail(items))

C28_LeafCount ==
    \A id \in 1..Len(heap) : IsGroup(heap, id) => heap[id].n_rules = LeafCount(heap, id)

(***************************************************************************)
(* SpecEq: Rules of three predicates, required or not, with or without a   *)
(* key, compared with ==.                                                  *)
(***************************************************************************)
\* Rule.__eq__(self, other) for two Rules: the byte code of the two _fn is
\* compared.  The byte code is that of the lambda a partial returns; the
\* values the lambda closes over (the type of isinstance_of, the value of
\* equals) are no part of it.
Rule_eq(h, self, other) == h[other].fn.p = h[self].fn.p

\* a == b
EqOp(a, b) ==
    /\ IsRule(heap, a) /\ IsRule(heap, b)
    /\ last' = [NoLast EXCEPT !.op = "eq", !.node = a, !.a = b,
                              !.tag = IF Rule_eq(heap, a, b) THEN "True" ELSE "False",
                              !.pre = heap]
    /\ UNCHANGED <<heap, threads>>

NextEq ==
    \/ \E fn \in {isinstance_of("str"), isinstance_of("int"), is_nonempty} :
       \E c \in {"NONE", "REQUIRED"} : \E k \in {NoKey, <<"a">>, <<"b">>} :
          Len(heap) < 2 /\ NewRule(fn, c, k)
    \/ \E a, b \in 1..Len(heap) : EqOp(a, b)

SpecEq == Init /\ [][NextEq]_vars

\* C29: two Rules compare equal iff they have the same predicate, the same
\* required flag and the same key.
C29_RuleEquality ==
    last.op = "eq" =>
        (last.tag = "True" <=>
            /\ heap[last.node].fn = heap[last.a].fn
            /\ heap[last.node].constraint = heap[last.a].constraint
            /\ heap[last.node].key = heap[last.a].key)

(***************************************************************************)
(* SpecCommute: & and | between Rules and groups in both orders, and with  *)
(* a type, a callable, a dict, a list or a scalar as the left operand.     *)
(***************************************************************************)
\* other & n and other | n for an other that is no Rule or RuleGroup: Python
\* finds no __and__/__or__ of other that takes n and calls n.__rand__(other)
\* or n.__ror__(other).  __rand__ returns NotImplemented, so & raises
\* TypeError; __ror__ returns n.__or__(other).
ReflectedOp(op, other, n) ==
    /\ Len(heap) < MaxNodes
    /\ n \in 1..Len(heap)
    /\ heap[n].cls \notin {"IsRequired", "IsOptional"}
    /\ IF op = "and"
       THEN /\ heap' = heap
            /\ last' = [NoLast EXCEPT !.op = "reflected_and", !.a = n, !.lit = other,
                                      !.tag = "Raise", !.exc = TRUE, !.pre = heap]
       ELSE LET r == Or(heap, n, other)
            IN  /\ heap' = r.h
                /\ last' = [NoLast EXCEPT !.op = "reflected_or", !.node = r.id, !.a = n,
                                          !.lit = other, !.pre = heap]
    /\ UNCHANGED threads

NextCommute ==
    \/ \E fn \in Preds : NewRule(fn, "NONE", NoKey)
    \/ \E a, b \in 1..Len(heap) : AndOp(a, LNode(b))
    \/ \E a, b \in 1..Len(heap) : OrOp(a, LNode(b))
    \/ \E op \in {"and", "or"}, n \in 1..Len(heap) :
       \E other \in {LType("str"), LFn(is_nonempty), LVal(IntV("1")),
                     LDict(<<KL(<<"a">>, LType("str"))>>), LList(<<LType("str")>>)} :
          ReflectedOp(op, other, n)

SpecCommute == Init /\ [][NextCommute]_vars

\* C30: & and | are commutative.  For a Rule or RuleGroup n and an operand x
\* that is a Rule, a RuleGroup, a type, a callable, a dict, a list or a
\* scalar, n & x and x & n both build a schema, and the two schemas give the
\* same outcome tag on every input; likewise for |.
C30_Commutative ==
    LET xs == {StrV("Abc"), StrV(""), IntV("1"), Nest1("a", StrV("Abc")),
               ListV(<<StrV("Abc")>>)}
        same(h1, g1, h2, g2) == \A x \in xs : Call(h1, g1, x).tag = Call(h2, g2, x).tag
    IN  /\ (last.op \in {"and", "or"} /\ last.lit.kind = "node") =>
              LET rev == IF last.op = "and" THEN And(last.pre, last.lit.id, LNode(last.a))
                         ELSE Or(last.pre, last.lit.id, LNode(last.a))
              IN  same(heap, last.node, rev.h, rev.id)
        /\ last.op \in {"reflected_and", "reflected_or"} =>
              LET fwd == IF last.op = "reflected_and" THEN And(last.pre, last.a, last.lit)
                         ELSE Or(last.pre, last.a, last.lit)
              IN  /\ last.tag # "Raise"
                  /\ same(heap, last.node, fwd.h, fwd.id)

====
